---- MODULE Spec2Model ----
(***************************************************************************)
(* Model of the mbserver concurrency and dispatch engine                   *)
(* (server.go, servetcp.go): the embedding program's calls (ListenTCP,     *)
(* RegisterFunctionHandler, Close), one accept loop per listener, one      *)
(* worker goroutine per accepted connection, the unbuffered requestChan    *)
(* and the single dispatcher goroutine started by NewServer.               *)
(***************************************************************************)
EXTENDS Integers, Sequences, FiniteSets, TLC

\* ------------------------------------------------------------------ bounds
\* Inputs the environment gives the server, all kinds together: API calls of
\* the embedding program, connections opened by peers, packets sent by peers.
MaxInputs == 5

Conns == 1..MaxInputs
Listeners == 1..MaxInputs
Ports == 1..MaxInputs

\* ------------------------------------------------- protocol vocabulary
\* The function codes the model exercises: 3, 5 and 6 have default handlers,
\* 7 has none.
FuncCodes == {3, 5, 6, 7}
\* The one bank address the modelled requests use.
Addrs == {10}
Nil == "nil"

Success == "Success"
IllegalFunction == "IllegalFunction"
IllegalDataValue == "IllegalDataValue"

\* Handler installed through RegisterFunctionHandler by the embedding program.
AlwaysIllegalDataValue == "AlwaysIllegalDataValue"
RegCodes == {3, 7}

VARIABLES
    banks,          \* DiscreteInputs, Coils, HoldingRegisters, InputRegisters
    function,       \* s.function, restricted to FuncCodes
    listeners,      \* s.listeners
    lopen,          \* per listener: is the socket still listening
    apc,            \* per listener: position of its accept loop
    aconn,          \* per listener: the connection Accept just returned
    nconns,         \* connections accepted so far
    inputs,         \* inputs the environment has given so far
    wpc,            \* per connection: position of its worker
    packet,         \* per connection: bytes of the last read
    wframe,         \* per connection: frame parsed from packet
    nread,          \* per connection: successful reads so far
    copen,          \* per connection: FALSE once conn.Close() ran
    out,            \* per connection: response frames written to it
    dpc,            \* position of the dispatcher goroutine
    request,        \* dispatcher local: the request received
    present,        \* dispatcher local: outcome of the test at server.go:80
    response,       \* dispatcher local: the response frame
    banks0,         \* history: banks when the current request was received
    log,            \* history: dispatcher events, in order
    mpc,            \* position of the embedding program's thread
    ci,             \* Close: index of the next listener to close
    portsCloseChan, \* "open" or "closed"
    closes,         \* Close calls that have returned
    nports,         \* len(s.ports)
    portsWG,        \* s.portsWG: port workers not yet exited
    ppc,            \* per port: position of its worker
    popen,          \* per port: FALSE once port.Close() ran
    fired,          \* history: how often each per-connection/listener hook list ran,
                    \* and per connection the trail of its accept and close steps
    crashed         \* TRUE once a goroutine panicked (the process is gone)

vars == <<banks, function, listeners, lopen, apc, aconn, nconns, inputs, wpc,
          packet, wframe, nread, copen, out, dpc, request, present, response,
          banks0, log, mpc, ci, portsCloseChan, closes, nports, portsWG, ppc,
          popen, fired, crashed>>

acceptVars == <<lopen, apc, aconn, nconns>>
workerVars == <<wpc, packet, wframe, nread, copen>>
dispVars == <<dpc, request, present, response, banks0, log>>
portVars == <<nports, portsWG, ppc, popen>>
mainVars == <<mpc, ci, portsCloseChan, closes, listeners, portVars>>

\* ------------------------------------------------------------ frames
NoFrame == [tid |-> 0, function |-> 0, data |-> <<>>, exception |-> Success]
NoPacket == [kind |-> "none"]
NoRequest == [conn |-> 0, frame |-> NoFrame]

\* What a peer can send on connection c as its k-th packet.
Packets(c, k) ==
    { [kind |-> "frame", tid |-> k, function |-> 6, data |-> <<10, c>>],
      [kind |-> "frame", tid |-> k, function |-> 3, data |-> <<10>>],
      [kind |-> "frame", tid |-> k, function |-> 5, data |-> <<10, 1>>],
      [kind |-> "frame", tid |-> k, function |-> 7, data |-> <<>>],
      [kind |-> "garbage"] }

\* NewTCPFrame: a frame, or an error for bytes that are no frame.
NewTCPFrame(p) ==
    IF p.kind = "frame"
    THEN [err |-> FALSE,
          frame |-> [tid |-> p.tid, function |-> p.function, data |-> p.data,
                     exception |-> Success]]
    ELSE [err |-> TRUE, frame |-> NoFrame]

Copy(f) == f
GetFunction(f) == f.function
SetData(f, d) == [f EXCEPT !.data = d]
SetException(f, e) == [f EXCEPT !.exception = e, !.data = <<>>]

\* ------------------------------------------------------------ handlers
InitBanks ==
    [DiscreteInputs |-> [a \in Addrs |-> 0],
     Coils |-> [a \in Addrs |-> 0],
     HoldingRegisters |-> [a \in Addrs |-> 0],
     InputRegisters |-> [a \in Addrs |-> 0]]

ReadHoldingRegisters(b, f) ==
    [banks |-> b, data |-> <<b.HoldingRegisters[f.data[1]]>>, exception |-> Success]

WriteSingleCoil(b, f) ==
    [banks |-> [b EXCEPT !.Coils[f.data[1]] = IF f.data[2] # 0 THEN 1 ELSE 0],
     data |-> f.data, exception |-> Success]

WriteHoldingRegister(b, f) ==
    [banks |-> [b EXCEPT !.HoldingRegisters[f.data[1]] = f.data[2]],
     data |-> f.data, exception |-> Success]

IllegalDataValueHandler(b, f) ==
    [banks |-> b, data |-> <<>>, exception |-> IllegalDataValue]

\* Calling the function value h with (s, frame).
Invoke(h, b, f) ==
    CASE h = "ReadHoldingRegisters" -> ReadHoldingRegisters(b, f)
      [] h = "WriteSingleCoil" -> WriteSingleCoil(b, f)
      [] h = "WriteHoldingRegister" -> WriteHoldingRegister(b, f)
      [] h = AlwaysIllegalDataValue -> IllegalDataValueHandler(b, f)

\* ------------------------------------------------------------ NewServer
DefaultFunction ==
    [c \in FuncCodes |->
        CASE c = 3 -> "ReadHoldingRegisters"
          [] c = 5 -> "WriteSingleCoil"
          [] c = 6 -> "WriteHoldingRegister"
          [] OTHER -> Nil]

Init ==
    /\ banks = InitBanks
    /\ function = DefaultFunction
    /\ listeners = <<>>
    /\ lopen = [l \in Listeners |-> FALSE]
    /\ apc = [l \in Listeners |-> "none"]
    /\ aconn = [l \in Listeners |-> 0]
    /\ nconns = 0
    /\ inputs = 0
    /\ wpc = [c \in Conns |-> "none"]
    /\ packet = [c \in Conns |-> NoPacket]
    /\ wframe = [c \in Conns |-> NoFrame]
    /\ nread = [c \in Conns |-> 0]
    /\ copen = [c \in Conns |-> TRUE]
    /\ out = [c \in Conns |-> <<>>]
    /\ dpc = "recv"
    /\ request = NoRequest
    /\ present = FALSE
    /\ response = NoFrame
    /\ banks0 = InitBanks
    /\ log = <<>>
    /\ mpc = "idle"
    /\ ci = 0
    /\ portsCloseChan = "open"
    /\ closes = 0
    /\ nports = 0
    /\ portsWG = 0
    /\ ppc = [p \in Ports |-> "none"]
    /\ popen = [p \in Ports |-> FALSE]
    /\ fired = [accepted |-> [c \in Conns |-> 0],
                closed |-> [c \in Conns |-> 0],
                started |-> [l \in Listeners |-> 0],
                stopped |-> [l \in Listeners |-> 0],
                trail |-> [c \in Conns |-> <<>>]]
    /\ crashed = FALSE


\* ------------------------------------------------- embedding program
Budget == inputs < MaxInputs

Idle == mpc = "idle" /\ Budget /\ ~crashed

\* ListenTCP whose net.Listen fails: the error is returned, nothing else.
ListenTCPFail ==
    /\ Idle
    /\ UNCHANGED vars

\* ListenTCP that binds: server-started hooks, append to s.listeners,
\* go s.accept(listen).
ListenTCP ==
    /\ Idle
    /\ LET l == Len(listeners) + 1 IN
        /\ lopen' = [lopen EXCEPT ![l] = TRUE]
        /\ fired' = [fired EXCEPT !.started[l] = @ + 1]
        /\ listeners' = Append(listeners, l)
        /\ apc' = [apc EXCEPT ![l] = "accept"]
    /\ inputs' = inputs + 1
    /\ UNCHANGED <<banks, function, aconn, nconns, workerVars, out, dispVars,
                   mpc, ci, portsCloseChan, closes, crashed,
                   portVars>>

\* Mutant of RegisterFunctionHandler: the handler lands in every entry.
RegisterEverywhere(funcCode, h) ==
    /\ Idle
    /\ function' = [x \in FuncCodes |-> h]
    /\ inputs' = inputs + 1
    /\ UNCHANGED <<banks, acceptVars, workerVars, out, dispVars,
                   mpc, ci, portsCloseChan, closes, listeners, fired, crashed,
                   portVars>>

RegisterFunctionHandler(funcCode, h) ==
    /\ Idle
    /\ function' = [function EXCEPT ![funcCode] = h]
    /\ inputs' = inputs + 1
    /\ UNCHANGED <<banks, acceptVars, workerVars, out, dispVars,
                   mpc, ci, portsCloseChan, closes, listeners, fired, crashed,
                   portVars>>

\* Close is entered.
CloseCall ==
    /\ Idle
    /\ mpc' = "close_listeners"
    /\ ci' = 1
    /\ inputs' = inputs + 1
    /\ UNCHANGED <<banks, function, acceptVars, workerVars, out, dispVars,
                   portsCloseChan, closes, listeners, fired, crashed,
                   portVars>>

\* Mutant of CloseListener: the hooks fire but the listener is not closed.
CloseListenerHooksOnly ==
    /\ mpc = "close_listeners" /\ ~crashed
    /\ ci <= Len(listeners)
    /\ fired' = [fired EXCEPT !.stopped[listeners[ci]] = @ + 1]
    /\ ci' = ci + 1
    /\ UNCHANGED <<banks, function, acceptVars, workerVars, out,
                   dispVars, mpc, portsCloseChan, closes, listeners,
                   crashed, inputs,
                   portVars>>

\* One iteration of the loop over s.listeners: listen.Close(), then the
\* server-stopped hooks.
CloseListener ==
    /\ mpc = "close_listeners" /\ ~crashed
    /\ ci <= Len(listeners)
    /\ lopen' = [lopen EXCEPT ![listeners[ci]] = FALSE]
    /\ fired' = [fired EXCEPT !.stopped[listeners[ci]] = @ + 1]
    /\ ci' = ci + 1
    /\ UNCHANGED <<banks, function, apc, aconn, nconns, workerVars, out,
                   dispVars, mpc, portsCloseChan, closes, listeners,
                   crashed, inputs,
                   portVars>>

\* Mutant of CloseSignal: the stop signal also closes every accepted
\* connection.
CloseSignalClosesConns ==
    /\ mpc = "close_listeners" /\ ~crashed
    /\ ci > Len(listeners)
    /\ portsCloseChan' = "closed"
    /\ mpc' = "close_wait"
    /\ copen' = [c \in Conns |-> IF wpc[c] # "none" THEN FALSE ELSE copen[c]]
    /\ UNCHANGED <<banks, function, acceptVars, wpc, packet, wframe, nread,
                   out, dispVars, ci, closes, listeners, fired, inputs,
                   crashed, portVars>>

\* close(s.portsCloseChan): closing a closed channel panics.
CloseSignal ==
    /\ mpc = "close_listeners" /\ ~crashed
    /\ ci > Len(listeners)
    /\ IF portsCloseChan = "open"
       THEN /\ portsCloseChan' = "closed"
            /\ mpc' = "close_wait"
            /\ UNCHANGED crashed
       ELSE /\ crashed' = TRUE
            /\ UNCHANGED <<portsCloseChan, mpc>>
    /\ UNCHANGED <<banks, function, acceptVars, workerVars, out, dispVars,
                   ci, closes, listeners, fired, inputs,
                   portVars>>

\* Mutant of CloseReturn: the barrier is not awaited.
CloseReturnNoWait ==
    /\ mpc = "close_wait" /\ ~crashed
    /\ popen' = [p \in Ports |-> IF p <= nports THEN FALSE ELSE popen[p]]
    /\ mpc' = "idle"
    /\ closes' = closes + 1
    /\ UNCHANGED <<banks, function, acceptVars, workerVars, out, dispVars,
                   ci, portsCloseChan, listeners, fired, crashed, inputs,
                   nports, portsWG, ppc>>

\* s.portsWG.Wait() passes once the barrier is at zero; then the loop over
\* s.ports closes every recorded port, and Close returns.
CloseReturn ==
    /\ mpc = "close_wait" /\ ~crashed
    /\ portsWG = 0
    /\ popen' = [p \in Ports |-> IF p <= nports THEN FALSE ELSE popen[p]]
    /\ mpc' = "idle"
    /\ closes' = closes + 1
    /\ UNCHANGED <<banks, function, acceptVars, workerVars, out, dispVars,
                   ci, portsCloseChan, listeners, fired, crashed, inputs,
                   nports, portsWG, ppc>>

\* ------------------------------------------------------- port workers
\* A serial-style port is opened and recorded, the barrier is raised by
\* one and a worker is started for the port.
ListenRTU ==
    /\ Idle
    /\ LET p == nports + 1 IN
        /\ nports' = p
        /\ popen' = [popen EXCEPT ![p] = TRUE]
        /\ portsWG' = portsWG + 1
        /\ ppc' = [ppc EXCEPT ![p] = "run"]
    /\ inputs' = inputs + 1
    /\ UNCHANGED <<banks, function, acceptVars, workerVars, out, dispVars,
                   mpc, ci, portsCloseChan, closes, listeners, fired, crashed>>

\* A port worker sees the stop signal, exits and lowers the barrier.
PortWorkerExit(p) ==
    /\ ppc[p] = "run" /\ ~crashed
    /\ portsCloseChan = "closed"
    /\ ppc' = [ppc EXCEPT ![p] = "exited"]
    /\ portsWG' = portsWG - 1
    /\ UNCHANGED <<banks, function, acceptVars, workerVars, out, dispVars,
                   mpc, ci, portsCloseChan, closes, listeners, nports, popen,
                   fired, crashed, inputs>>

\* ------------------------------------------------------ accept loop
\* listen.Accept() returns a connection.
Accept(l) ==
    /\ apc[l] = "accept" /\ ~crashed
    /\ lopen[l]
    /\ Budget
    /\ nconns' = nconns + 1
    /\ inputs' = inputs + 1
    /\ aconn' = [aconn EXCEPT ![l] = nconns + 1]
    /\ apc' = [apc EXCEPT ![l] = "hooks"]
    /\ UNCHANGED <<banks, function, lopen, workerVars, out, dispVars,
                   mainVars, fired, crashed>>

\* listen.Accept() fails with "use of closed network connection": return nil.
AcceptClosed(l) ==
    /\ apc[l] = "accept" /\ ~crashed
    /\ ~lopen[l]
    /\ apc' = [apc EXCEPT ![l] = "returned"]
    /\ UNCHANGED <<banks, function, lopen, aconn, nconns, workerVars, out,
                   dispVars, mainVars, fired, crashed, inputs>>

\* listen.Accept() fails with any other error: logged, the loop returns it.
AcceptError(l) ==
    /\ apc[l] = "accept" /\ ~crashed
    /\ lopen[l]
    /\ apc' = [apc EXCEPT ![l] = "returned"]
    /\ UNCHANGED <<banks, function, lopen, aconn, nconns, workerVars, out,
                   dispVars, mainVars, fired, crashed, inputs>>

\* Connection-accepted hooks, then the worker goroutine is started.
AcceptSpawn(l) ==
    /\ apc[l] = "hooks" /\ ~crashed
    /\ fired' = [fired EXCEPT !.accepted[aconn[l]] = @ + 1,
                              !.trail[aconn[l]] =
                                  @ \o <<"ConnectionAcceptedEvent", "go">>]
    /\ wpc' = [wpc EXCEPT ![aconn[l]] = "read"]
    /\ apc' = [apc EXCEPT ![l] = "accept"]
    /\ UNCHANGED <<banks, function, lopen, aconn, nconns, packet, wframe,
                   nread, copen, inputs, out, dispVars, mainVars, crashed>>

\* ------------------------------------------------- connection worker
\* An entry of log: what happened, to which connection, for which of its
\* packets (counted from 1), and a detail.
Event(kind, c, k, info) == <<kind, c, k, info>>

\* The request-received and response-sent hook lists, two hooks each, in
\* the order they were registered during setup.
RequestReceivedEvent == <<"received1", "received2">>
ResponseSentEvent == <<"sent1", "sent2">>

\* for _, handle := range s.RequestReceivedEvent { handle(conn, frame) }
HooksReceived(c, k) ==
    [i \in 1..Len(RequestReceivedEvent) |->
        Event("hookR", c, k, [hook |-> RequestReceivedEvent[i], closes |-> closes])]

\* for _, handle := range s.ResponseSentEvent { handle(conn, frame) }
HooksSent(c, k) ==
    [i \in 1..Len(ResponseSentEvent) |->
        Event("hookS", c, k, ResponseSentEvent[i])]

\* The worker's deferred function: conn.Close(), then the connection-closed
\* hooks.
Deferred == <<"conn.Close", "ConnectionClosedEvent">>

\* Mutant of WorkerRead: bytes that do not parse are skipped and the worker
\* reads on, the connection left open.
WorkerReadSkipsBad(c) ==
    /\ wpc[c] = "read" /\ ~crashed
    /\ Budget
    /\ \E p \in Packets(c, nread[c] + 1) :
        LET r == NewTCPFrame(p) IN
        /\ packet' = [packet EXCEPT ![c] = p]
        /\ IF r.err
           THEN /\ log' = Append(log, Event("closed", c, nread[c] + 1, "parse"))
                /\ UNCHANGED <<wframe, wpc>>
           ELSE /\ wpc' = [wpc EXCEPT ![c] = "send"]
                /\ wframe' = [wframe EXCEPT ![c] = r.frame]
                /\ UNCHANGED log
    /\ nread' = [nread EXCEPT ![c] = @ + 1]
    /\ inputs' = inputs + 1
    /\ UNCHANGED <<banks, function, acceptVars, out, dpc, request, present,
                   response, banks0, mainVars, crashed, copen, fired>>

\* conn.Read returns bytes and NewTCPFrame parses them: the worker is left
\* at the send on requestChan.  Bytes that do not parse end the worker: the
\* deferred function closes the connection and fires the closed hooks.
WorkerRead(c) ==
    /\ wpc[c] = "read" /\ ~crashed
    /\ Budget
    /\ \E p \in Packets(c, nread[c] + 1) :
        LET r == NewTCPFrame(p) IN
        /\ packet' = [packet EXCEPT ![c] = p]
        /\ IF r.err
           THEN /\ wpc' = [wpc EXCEPT ![c] = "done"]
                /\ copen' = [copen EXCEPT ![c] = FALSE]
                /\ fired' = [fired EXCEPT !.closed[c] = @ + 1,
                                          !.trail[c] = @ \o Deferred]
                /\ log' = Append(log, Event("closed", c, nread[c] + 1, "parse"))
                /\ UNCHANGED wframe
           ELSE /\ wpc' = [wpc EXCEPT ![c] = "send"]
                /\ wframe' = [wframe EXCEPT ![c] = r.frame]
                /\ UNCHANGED <<copen, fired, log>>
    /\ nread' = [nread EXCEPT ![c] = @ + 1]
    /\ inputs' = inputs + 1
    /\ UNCHANGED <<banks, function, acceptVars, out, dpc, request, present,
                   response, banks0, mainVars, crashed>>

\* Mutant of WorkerReadFail: the connection-closed hooks run before the
\* connection is closed.
WorkerReadFailHooksFirst(c) ==
    /\ wpc[c] = "read" /\ ~crashed
    /\ wpc' = [wpc EXCEPT ![c] = "done"]
    /\ copen' = [copen EXCEPT ![c] = FALSE]
    /\ fired' = [fired EXCEPT !.closed[c] = @ + 1,
                              !.trail[c] = @ \o <<"ConnectionClosedEvent", "conn.Close">>]
    /\ log' = Append(log, Event("closed", c, nread[c], "read"))
    /\ UNCHANGED <<banks, function, acceptVars, packet, wframe, nread, inputs,
                   out, dpc, request, present, response, banks0, mainVars,
                   crashed>>

\* conn.Read returns io.EOF or another error: the worker returns and the
\* deferred function closes the connection and fires the closed hooks.
WorkerReadFail(c) ==
    /\ wpc[c] = "read" /\ ~crashed
    /\ wpc' = [wpc EXCEPT ![c] = "done"]
    /\ copen' = [copen EXCEPT ![c] = FALSE]
    /\ fired' = [fired EXCEPT !.closed[c] = @ + 1,
                              !.trail[c] = @ \o Deferred]
    /\ log' = Append(log, Event("closed", c, nread[c], "read"))
    /\ UNCHANGED <<banks, function, acceptVars, packet, wframe, nread, inputs,
                   out, dpc, request, present, response, banks0, mainVars,
                   crashed>>

\* ------------------------------------------------------- dispatcher
\* Mutant of AtReceive: a receive is possible while a request is in hand, as
\* if each request were given a goroutine of its own.
AtReceiveOrBusy == TRUE

\* The dispatcher is blocked at request := <-s.requestChan.
AtReceive == dpc = "recv"

\* Mutant of WorkerSend: the send completes at once, as on a buffered
\* channel, and the worker goes back to reading.
WorkerSendNoWait(c) ==
    /\ wpc[c] = "send" /\ ~crashed
    /\ wpc' = [wpc EXCEPT ![c] = "read"]
    /\ UNCHANGED <<banks, function, acceptVars, packet, wframe, nread, copen,
                   inputs, out, dispVars, mainVars, fired, crashed>>

\* Mutant of WorkerSend: the worker runs the handler and answers by itself
\* instead of handing the request to the dispatcher.
WorkerSendInline(c) ==
    /\ wpc[c] = "send" /\ ~crashed
    /\ LET f == wframe[c]
           h == function[GetFunction(f)]
       IN /\ h # Nil
          /\ banks' = Invoke(h, banks, f).banks
          /\ out' = [out EXCEPT ![c] = Append(@, SetData(Copy(f), Invoke(h, banks, f).data))]
    /\ wpc' = [wpc EXCEPT ![c] = "read"]
    /\ UNCHANGED <<function, acceptVars, packet, wframe, nread, copen,
                   inputs, dispVars, mainVars, fired, crashed>>

\* s.requestChan <- request meets <-s.requestChan: the channel is
\* unbuffered, so the send completes only with the dispatcher's receive.
\* The dispatcher goes on through the request-received hooks and into handle:
\* response := request.frame.Copy() and the test s.function[function] != nil.
WorkerSend(c) ==
    /\ wpc[c] = "send" /\ ~crashed
    /\ AtReceive
    /\ LET req == [conn |-> c, frame |-> wframe[c]] IN
        /\ request' = req
        /\ response' = Copy(req.frame)
        /\ present' = (function[GetFunction(req.frame)] # Nil)
        /\ log' = log \o <<Event("recv", c, req.frame.tid, req.frame)>>
                       \o HooksReceived(c, req.frame.tid)
                       \o <<Event("lookup", c, req.frame.tid,
                                   function[GetFunction(req.frame)])>>
    /\ banks0' = banks
    /\ dpc' = "call"
    /\ wpc' = [wpc EXCEPT ![c] = "read"]
    /\ UNCHANGED <<banks, function, acceptVars, packet, wframe, nread, copen,
                   inputs, out, mainVars, fired, crashed>>

\* Mutant of HandleResponse: response.SetData(data) is left out, so the
\* response keeps the payload copied from the request.
HandleResponseNoSetData(resp, isPresent, ret) ==
    IF isPresent
    THEN IF ret.exception # Success THEN SetException(resp, ret.exception) ELSE resp
    ELSE SetException(resp, IllegalFunction)

\* Mutant of HandleResponse: with no handler the exception is left unset.
HandleResponseNoIllegal(resp, isPresent, ret) ==
    IF isPresent
    THEN LET r1 == SetData(resp, ret.data) IN
         IF ret.exception # Success THEN SetException(r1, ret.exception) ELSE r1
    ELSE resp

\* The rest of handle once the handler has returned ret, or with no handler.
HandleResponse(resp, isPresent, ret) ==
    IF isPresent
    THEN LET r1 == SetData(resp, ret.data) IN
         IF ret.exception # Success THEN SetException(r1, ret.exception) ELSE r1
    ELSE SetException(resp, IllegalFunction)

NoReturn == [banks |-> InitBanks, data |-> <<>>, exception |-> IllegalFunction]

\* Mutant of DispatchCall: the handler works on a copy of the banks, and
\* what it wrote is lost.
DispatchCallDiscard ==
    /\ dpc = "call" /\ ~crashed
    /\ LET h == function[GetFunction(request.frame)]
           ret == IF present THEN Invoke(h, banks, request.frame) ELSE NoReturn
       IN /\ response' = HandleResponse(response, present, ret)
          /\ log' = IF present
                    THEN Append(log, Event("invoke", request.conn,
                                 request.frame.tid,
                                 [h |-> h, data |-> ret.data,
                                  exception |-> ret.exception]))
                    ELSE log
    /\ dpc' = "write"
    /\ UNCHANGED <<banks, function, acceptVars, workerVars, out, request,
                   present, banks0, mainVars, fired, crashed, inputs>>

\* handle, from the call s.function[function](s, request.frame) to return.
DispatchCall ==
    /\ dpc = "call" /\ ~crashed
    /\ LET h == function[GetFunction(request.frame)]
           ret == IF present THEN Invoke(h, banks, request.frame) ELSE NoReturn
       IN /\ banks' = IF present THEN ret.banks ELSE banks
          /\ response' = HandleResponse(response, present, ret)
          /\ log' = IF present
                    THEN Append(log, Event("invoke", request.conn,
                                 request.frame.tid,
                                 [h |-> h, data |-> ret.data,
                                  exception |-> ret.exception]))
                    ELSE log
    /\ dpc' = "write"
    /\ UNCHANGED <<function, acceptVars, workerVars, out, request, present,
                   banks0, mainVars, fired, crashed, inputs>>

\* Mutant of DispatchWrite: a response carrying an exception is written and
\* the connection is then closed.
DispatchWriteClosesOnException ==
    /\ dpc = "write" /\ ~crashed
    /\ out' = IF copen[request.conn]
              THEN [out EXCEPT ![request.conn] = Append(@, response)]
              ELSE out
    /\ copen' = IF response.exception # Success
                THEN [copen EXCEPT ![request.conn] = FALSE]
                ELSE copen
    /\ log' = log \o <<Event("write", request.conn, request.frame.tid,
                             copen[request.conn])>>
                  \o HooksSent(request.conn, request.frame.tid)
    /\ dpc' = "recv"
    /\ UNCHANGED <<banks, function, acceptVars, wpc, packet, wframe, nread,
                   request, present, response, banks0, mainVars, fired,
                   crashed, inputs>>

\* Mutant of DispatchWrite: the response goes to the connection accepted
\* last instead of the one the request came from.
DispatchWriteToLatest ==
    /\ dpc = "write" /\ ~crashed
    /\ out' = IF copen[nconns]
              THEN [out EXCEPT ![nconns] = Append(@, response)]
              ELSE out
    /\ log' = log \o <<Event("write", request.conn, request.frame.tid,
                             copen[nconns])>>
                  \o HooksSent(request.conn, request.frame.tid)
    /\ dpc' = "recv"
    /\ UNCHANGED <<banks, function, acceptVars, workerVars, request, present,
                   response, banks0, mainVars, fired, crashed, inputs>>

\* Mutant of DispatchWrite: the response-sent hooks run before the write.
DispatchWriteHooksFirst ==
    /\ dpc = "write" /\ ~crashed
    /\ out' = IF copen[request.conn]
              THEN [out EXCEPT ![request.conn] = Append(@, response)]
              ELSE out
    /\ log' = log \o HooksSent(request.conn, request.frame.tid)
                  \o <<Event("write", request.conn, request.frame.tid,
                             copen[request.conn])>>
    /\ dpc' = "recv"
    /\ UNCHANGED <<banks, function, acceptVars, workerVars, request, present,
                   response, banks0, mainVars, fired, crashed, inputs>>

\* request.conn.Write(response.Bytes()); a write on a connection its worker
\* has closed fails and the error is dropped.  Then the response-sent hooks,
\* and the loop returns to the receive.
DispatchWrite ==
    /\ dpc = "write" /\ ~crashed
    /\ out' = IF copen[request.conn]
              THEN [out EXCEPT ![request.conn] = Append(@, response)]
              ELSE out
    /\ log' = log \o <<Event("write", request.conn, request.frame.tid,
                             copen[request.conn])>>
                  \o HooksSent(request.conn, request.frame.tid)
    /\ dpc' = "recv"
    /\ UNCHANGED <<banks, function, acceptVars, workerVars, request, present,
                   response, banks0, mainVars, fired, crashed, inputs>>

\* ------------------------------------------------------ specification
Next ==
    \/ ListenTCPFail
    \/ ListenTCP
    \/ \E c \in RegCodes : RegisterFunctionHandler(c, AlwaysIllegalDataValue)
    \/ CloseCall
    \/ CloseListener
    \/ CloseSignal
    \/ CloseReturn
    \/ ListenRTU
    \/ \E p \in Ports : PortWorkerExit(p)
    \/ \E l \in Listeners : Accept(l)
    \/ \E l \in Listeners : AcceptClosed(l)
    \/ \E l \in Listeners : AcceptError(l)
    \/ \E l \in Listeners : AcceptSpawn(l)
    \/ \E c \in Conns : WorkerRead(c)
    \/ \E c \in Conns : WorkerReadFail(c)
    \/ \E c \in Conns : WorkerSend(c)
    \/ DispatchCall
    \/ DispatchWrite

Spec == Init /\ [][Next]_vars

\* Fair scheduling of the goroutines: every step of the program itself that
\* stays possible is taken, and a worker blocked at its send is served when
\* the dispatcher comes to its receive again and again (senders wait in the
\* channel's queue in arrival order).  Nothing is assumed of the
\* environment: API calls, incoming connections, bytes and read errors.
Fairness ==
    /\ WF_vars(DispatchCall)
    /\ WF_vars(DispatchWrite)
    /\ \A c \in Conns : SF_vars(WorkerSend(c))
    /\ \A l \in Listeners : WF_vars(AcceptSpawn(l) \/ AcceptClosed(l))
    /\ \A p \in Ports : WF_vars(PortWorkerExit(p))
    /\ WF_vars(CloseListener \/ CloseSignal \/ CloseReturn)

FairSpec == Spec /\ Fairness

\* ------------------------------------------------- reading the log
Kind(e) == e[1]
ConnOf(e) == e[2]
Rid(e) == <<e[2], e[3]>>
Info(e) == e[4]

IsRecv(e) == Kind(e) = "recv"
IsWrite(e) == Kind(e) = "write"
IsRecvOfWrite(e) == IsRecv(e) /\ Info(e).function = 6

\* The events of one kind for one request.
EventsOf(kind, r) == {i \in DOMAIN log : Kind(log[i]) = kind /\ Rid(log[i]) = r}

\* Requests the dispatcher has received.
Received == {Rid(log[i]) : i \in {j \in DOMAIN log : IsRecv(log[j])}}

\* The dispatcher is between a receive and the end of its response-sent hooks.
Busy == dpc # "recv"

\* Nothing is read and unanswered: no worker holds a parsed request and the
\* dispatcher is back at its receive.
Quiescent == ~Busy /\ \A c \in Conns : wpc[c] # "send"

\* C1: at most one request is being processed at any time: from the receive
\* of a request until its response-sent hooks have run, the dispatcher
\* neither receives another request nor starts a handler for another one,
\* so handler invocations never overlap.
C1_OneRequestAtATime ==
    \A i, j \in DOMAIN log :
        (/\ i < j
         /\ IsRecv(log[i])
         /\ Kind(log[j]) \in {"recv", "invoke"}
         /\ Rid(log[j]) # Rid(log[i]))
        => \E m \in (i + 1)..(j - 1) :
              Kind(log[m]) = "hookS" /\ Rid(log[m]) = Rid(log[i])

\* A worker holds a parsed request of its own while the dispatcher is
\* processing another connection's request.
C1_Witness ==
    \E c \in Conns : wpc[c] = "send" /\ dpc = "call" /\ request.conn # c

\* The holding registers after the writes ws are applied in order.
RECURSIVE ApplyWrites(_, _)
ApplyWrites(hr, ws) ==
    IF ws = <<>> THEN hr
    ELSE ApplyWrites([hr EXCEPT ![Info(Head(ws)).data[1]] = Info(Head(ws)).data[2]],
                     Tail(ws))

HandedOffWrites == SelectSeq(log, IsRecvOfWrite)
Writers == {ConnOf(HandedOffWrites[i]) : i \in DOMAIN HandedOffWrites}

\* C2: when two or more connections have each written their own value to
\* holding register 10 and every request has been answered, the registers
\* equal the writes applied one after the other in the order the dispatcher
\* received them, and register 10 holds the value of the last of them.
C2_WritesSerialized ==
    (Cardinality(Writers) >= 2 /\ Quiescent)
    => /\ banks.HoldingRegisters =
            ApplyWrites(InitBanks.HoldingRegisters, HandedOffWrites)
       /\ banks.HoldingRegisters[10] =
            Info(HandedOffWrites[Len(HandedOffWrites)]).data[2]

\* Connections 1 and 2 have both written and been answered, and the write of
\* connection 1, accepted first, was processed last.
C2_Witness ==
    /\ Quiescent
    /\ {1, 2} \subseteq Writers
    /\ Len(out[1]) >= 1 /\ Len(out[2]) >= 1
    /\ banks.HoldingRegisters[10] = 1
    /\ ConnOf(HandedOffWrites[1]) = 2

\* C3: the four banks change only in the dispatcher's handler call: every
\* step of the accept loops, of the workers, of ListenTCP,
\* RegisterFunctionHandler and Close leaves them as they are.
C3_BanksOnlyByDispatcher ==
    [][banks' # banks => (dpc = "call" /\ dpc' = "write")]_vars

\* A bank has been written, a worker has closed its connection and Close
\* has returned.
C3_Witness ==
    /\ banks # InitBanks
    /\ closes >= 1
    /\ \E c \in Conns : wpc[c] = "done"

\* The frame of request r, as the dispatcher received it.
FrameOf(r) == Info(log[CHOOSE i \in EventsOf("recv", r) : TRUE])

\* The responses written to its connection for request r.
ResponsesTo(r) == {out[r[1]][j] : j \in {n \in DOMAIN out[r[1]] : out[r[1]][n].tid = r[2]}}

\* C4: when the handler registered for a request's function code returns
\* the success exception, the response written to the request's connection
\* carries no exception and its payload is the payload the handler returned.
C4_SuccessPayload ==
    \A i \in DOMAIN log :
        (Kind(log[i]) = "invoke" /\ Info(log[i]).exception = Success)
        => \A resp \in ResponsesTo(Rid(log[i])) :
              resp.exception = Success /\ resp.data = Info(log[i]).data

\* A read of holding register 10 was answered with a value written earlier,
\* a payload that differs from the request's own.
C4_Witness ==
    \E c \in Conns : \E j \in DOMAIN out[c] :
        /\ out[c][j].function = 3
        /\ out[c][j].exception = Success
        /\ out[c][j].data # <<0>>
        /\ out[c][j].data # <<10>>

\* C5: a request whose function code has no entry in the function table
\* gets no handler invoked, leaves the banks as they were when it was
\* received, and the response the dispatcher builds and writes for it goes
\* to its own connection with the illegal-function exception and no payload.
C5_IllegalFunction ==
    \A i \in DOMAIN log :
        (Kind(log[i]) = "lookup" /\ Info(log[i]) = Nil)
        => LET r == Rid(log[i]) IN
           /\ EventsOf("invoke", r) = {}
           /\ \A resp \in ResponsesTo(r) :
                 resp.exception = IllegalFunction /\ resp.data = <<>>
           /\ (\E w \in EventsOf("write", r) : Info(log[w]) = TRUE)
                 => ResponsesTo(r) # {}
           /\ (<<request.conn, request.frame.tid>> = r) => banks = banks0
           /\ (<<request.conn, request.frame.tid>> = r /\ dpc = "write")
                 => response.exception = IllegalFunction /\ response.data = <<>>

\* An illegal-function response has been written for the request the
\* dispatcher handled last, at a time when the banks held written values.
C5_Witness ==
    /\ banks.HoldingRegisters[10] # 0
    /\ dpc = "recv"
    /\ \E resp \in ResponsesTo(<<request.conn, request.frame.tid>>) :
          resp.exception = IllegalFunction

\* What the handler NewServer installs for a function code answers with.
DefaultException(code) ==
    IF DefaultFunction[code] = Nil THEN IllegalFunction ELSE Success

\* C6: once the always-illegal-data-value handler is in the table for a
\* function code, every request with that code the dispatcher looks up gets
\* that handler and a response with exactly that exception; a request with a
\* function code whose entry was not replaced is still given to the handler
\* NewServer installed (or to none) and answered as before.
C6_OverrideIsolated ==
    \A i \in DOMAIN log :
        Kind(log[i]) = "lookup"
        => LET r == Rid(log[i])
               code == GetFunction(FrameOf(r))
           IN /\ Info(log[i]) = AlwaysIllegalDataValue
                 => /\ \A n \in EventsOf("invoke", r) :
                          Info(log[n]).h = AlwaysIllegalDataValue
                    /\ \A resp \in ResponsesTo(r) :
                          resp.exception = IllegalDataValue
              /\ (code \notin RegCodes \/ function[code] = DefaultFunction[code])
                 => /\ \A n \in EventsOf("invoke", r) :
                          Info(log[n]).h = DefaultFunction[code]
                    /\ \A resp \in ResponsesTo(r) :
                          resp.exception = DefaultException(code)

\* On one connection a request with an overridden code was answered with
\* illegal-data-value and a later request with another code was answered
\* with success.
C6_Witness ==
    \E c \in Conns : \E j, n \in DOMAIN out[c] :
        /\ j < n
        /\ out[c][j].exception = IllegalDataValue
        /\ out[c][n].exception = Success
        /\ out[c][n].function \notin RegCodes

\* The dispatcher can take its next step.
DispatcherCanStep ==
    /\ dpc = "call" => ENABLED DispatchCall
    /\ dpc = "write" => ENABLED DispatchWrite
    /\ \A c \in Conns : (dpc = "recv" /\ wpc[c] = "send") => ENABLED WorkerSend(c)

\* C7: for bytes that fail to parse no request reaches the dispatcher and
\* no response is written, the worker has terminated with its connection
\* closed, and the dispatcher can still take its next step for the requests
\* of the other connections.
C7_BadPacketDropped ==
    \A i \in DOMAIN log :
        (Kind(log[i]) = "closed" /\ Info(log[i]) = "parse")
        => LET r == Rid(log[i]) IN
           /\ EventsOf("recv", r) = {}
           /\ ResponsesTo(r) = {}
           /\ Len(out[r[1]]) < r[2]
           /\ wpc[r[1]] = "done"
           /\ ~copen[r[1]]
           /\ packet[r[1]].kind = "garbage"
           /\ ~crashed => DispatcherCanStep

\* After one connection's bytes failed to parse, a request of another
\* connection was received and its response written.
C7_Witness ==
    \E i, j, n \in DOMAIN log :
        /\ i < j /\ j < n
        /\ Kind(log[i]) = "closed" /\ Info(log[i]) = "parse"
        /\ IsRecv(log[j]) /\ ConnOf(log[j]) # ConnOf(log[i])
        /\ IsWrite(log[n]) /\ Rid(log[n]) = Rid(log[j]) /\ Info(log[n]) = TRUE

\* C8: a connection is closed, and its worker ended, only by that worker's
\* own failing read or parse; writing a response that carries an exception
\* puts it on the request's connection and leaves the connection open and
\* its worker where it was.
C8_ExceptionKeepsConnection ==
    [][\A c \in Conns :
        /\ ((copen[c] /\ ~copen'[c]) \/ (wpc[c] # "done" /\ wpc'[c] = "done"))
           => /\ wpc[c] = "read" /\ wpc'[c] = "done" /\ ~copen'[c]
              /\ Len(log') = Len(log) + 1
              /\ Kind(log'[Len(log')]) = "closed"
              /\ ConnOf(log'[Len(log')]) = c
        /\ (/\ dpc = "write" /\ dpc' = "recv"
            /\ request.conn = c
            /\ response.exception # Success
            /\ copen[c])
           => out'[c] = Append(out[c], response)
      ]_vars

\* A connection's first request was answered with an exception and its
\* second request was answered on the same connection afterwards.
C8_Witness ==
    \E c \in Conns :
        /\ Len(out[c]) >= 2
        /\ out[c][1].exception # Success
        /\ out[c][1].tid = 1
        /\ out[c][2].tid = 2

ReceiveOrder == SelectSeq(log, IsRecv)
WriteOrder == SelectSeq(log, IsWrite)

\* C9: responses are written in the order the handoffs completed, and on
\* each connection the requests are received, and the responses written,
\* in the order the connection's packets were read.
C9_HandoffOrder ==
    /\ Len(WriteOrder) <= Len(ReceiveOrder)
    /\ \A i \in DOMAIN WriteOrder : Rid(WriteOrder[i]) = Rid(ReceiveOrder[i])
    /\ \A i, j \in DOMAIN ReceiveOrder :
          (i < j /\ ConnOf(ReceiveOrder[i]) = ConnOf(ReceiveOrder[j]))
          => ReceiveOrder[i][3] < ReceiveOrder[j][3]
    /\ \A c \in Conns : \A i, j \in DOMAIN out[c] :
          i < j => out[c][i].tid < out[c][j].tid

\* Connection 2, accepted second, handed off before connection 1, and the
\* two responses were written in that order, each to its own connection.
C9_Witness ==
    /\ Len(WriteOrder) >= 2
    /\ ConnOf(WriteOrder[1]) = 2
    /\ ConnOf(WriteOrder[2]) = 1
    /\ Len(out[1]) = 1 /\ Len(out[2]) = 1

\* A listener that was started and has been closed.
ClosedListener(l) == apc[l] # "none" /\ ~lopen[l]

\* C10 as stated: once Close has returned, no closed listener has the
\* connection-accepted hooks fired or a worker started for a connection.
C10_NoSpawnAfterClose ==
    [][\A l \in Listeners :
        (closes >= 1 /\ mpc = "idle" /\ ClosedListener(l))
        => ~(apc[l] = "hooks" /\ apc'[l] = "accept")
      ]_vars

\* C10, amended: Accept never returns a connection on a listener that Close
\* has closed, and when Close returns every recorded listener is closed.
C10_NoAcceptAfterClose ==
    [][/\ \A l \in Listeners :
            ClosedListener(l) => ~(apc[l] = "accept" /\ apc'[l] = "hooks")
       /\ (mpc = "close_wait" /\ mpc' = "idle")
            => \A i \in DOMAIN listeners : ~lopen[listeners[i]]
      ]_vars

\* Close has returned and an accept loop that had accepted a connection
\* before has ended on the closed listener.
C10_Witness ==
    /\ closes >= 1
    /\ nconns >= 1
    /\ \E l \in Listeners : ClosedListener(l) /\ apc[l] = "returned"

\* The ports recorded in s.ports.
RecordedPorts == 1..nports

\* C11: Close keeps its order. The stop signal is raised only when every
\* recorded listener is closed and has had its server-stopped hooks; a port
\* is closed only after the signal, with the barrier at zero and every port
\* worker exited; and Close returns only with every port worker exited and
\* every recorded port closed.
C11_CloseOrder ==
    [][/\ (portsCloseChan = "open" /\ portsCloseChan' = "closed")
            => \A i \in DOMAIN listeners :
                  ~lopen[listeners[i]] /\ fired.stopped[listeners[i]] >= 1
       /\ \A p \in Ports : (popen[p] /\ ~popen'[p])
            => /\ portsCloseChan = "closed"
               /\ portsWG = 0
               /\ \A q \in RecordedPorts : ppc[q] = "exited"
       /\ (closes' = closes + 1)
            => /\ \A q \in RecordedPorts : ppc[q] = "exited" /\ ~popen'[q]
               /\ portsCloseChan = "closed"
      ]_vars

\* Close has returned after closing a listener and a port whose worker had
\* to see the stop signal first.
C11_Witness ==
    /\ closes >= 1
    /\ nports >= 1 /\ ppc[1] = "exited" /\ ~popen[1] /\ portsWG = 0
    /\ \E l \in Listeners : ClosedListener(l) /\ fired.stopped[l] = 1

\* A step taken inside a Close call.
CloseStep ==
    \/ mpc' # mpc
    \/ ci' # ci
    \/ closes' # closes
    \/ portsCloseChan' # portsCloseChan
    \/ (lopen' # lopen /\ mpc = "close_listeners")

\* C12: no step of Close closes an accepted connection, moves or ends its
\* worker, or touches the dispatcher; a connection is closed, and its worker
\* ended, only by the worker's own failing read or parse.
C12_CloseLeavesConnections ==
    [][/\ CloseStep => UNCHANGED <<workerVars, out, dispVars>>
       /\ \A c \in Conns :
            ((wpc'[c] = "done" /\ wpc[c] # "done") \/ (copen[c] /\ ~copen'[c]))
            => /\ wpc[c] = "read" /\ wpc'[c] = "done"
               /\ Kind(log'[Len(log')]) = "closed"
               /\ ConnOf(log'[Len(log')]) = c
               /\ Info(log'[Len(log')]) \in {"read", "parse"}
      ]_vars

\* The one Close call made has returned and closed the only listener; a
\* connection accepted on that listener then had a request handed off and
\* the response written to it, and its worker is reading again.
C12_Witness ==
    /\ closes = 1 /\ mpc = "idle" /\ ~crashed
    /\ Len(listeners) = 1 /\ ~lopen[1]
    /\ \E i, j \in DOMAIN log :
          /\ i < j
          /\ Kind(log[i]) = "hookR" /\ Info(log[i]).closes = 1
          /\ Kind(log[j]) = "write" /\ Rid(log[j]) = Rid(log[i])
          /\ Info(log[j]) = TRUE
          /\ Len(out[ConnOf(log[i])]) = 1
          /\ wpc[ConnOf(log[i])] = "read"

\* C13 as stated: the handler a request is executed with is the one that
\* was in the table when handle looked the function code up, whatever is
\* registered afterwards.
C13_HandlerOfLookup ==
    \A i, j \in DOMAIN log :
        (/\ Kind(log[i]) = "lookup"
         /\ Kind(log[j]) = "invoke"
         /\ Rid(log[j]) = Rid(log[i]))
        => Info(log[j]).h = Info(log[i])

\* The request the dispatcher has in hand, if it has one.
InHand(r) == Busy /\ r = <<request.conn, request.frame.tid>>

\* The writes that reached connection c.
WritesTo(c) ==
    {i \in DOMAIN log : IsWrite(log[i]) /\ ConnOf(log[i]) = c /\ Info(log[i]) = TRUE}

\* C14: a request handed off is received once, looked up once, invoked at
\* most once, and its response is written at most once while it is in hand
\* and exactly once when the dispatcher has finished it; the lookups,
\* invocations and writes are those of received requests only; and what has
\* been written to a connection is one response for each successful write
\* for a request of that same connection, nothing else.
C14_ConsumedOnce ==
    /\ \A i \in DOMAIN log :
          /\ IsRecv(log[i])
              => LET r == Rid(log[i])
                     writes == Cardinality(EventsOf("write", r))
                 IN /\ EventsOf("recv", r) = {i}
                    /\ Cardinality(EventsOf("lookup", r)) = 1
                    /\ Cardinality(EventsOf("invoke", r)) <= 1
                    /\ writes <= 1
                    /\ ~InHand(r) => writes = 1
          /\ Kind(log[i]) \in {"lookup", "invoke", "write"}
              => \E j \in 1..(i - 1) :
                    IsRecv(log[j]) /\ Rid(log[j]) = Rid(log[i])
    /\ \A c \in Conns :
          LET ws == WritesTo(c) IN
          /\ Len(out[c]) = Cardinality(ws)
          /\ \A i \in DOMAIN out[c] : \E j \in ws : log[j][3] = out[c][i].tid

\* Two connections have each had a request answered, one of them for a
\* function code with no handler, which was looked up but not invoked.
C14_Witness ==
    /\ ~Busy
    /\ \E r1, r2 \in Received :
          /\ r1[1] # r2[1]
          /\ Cardinality(EventsOf("invoke", r1)) = 1
          /\ Cardinality(EventsOf("invoke", r2)) = 0
          /\ Len(out[r1[1]]) = 1 /\ Len(out[r2[1]]) = 1

\* What the dispatcher did, in order: log without the workers' entries.
IsDispatcherEntry(e) == Kind(e) # "closed"
DispatcherLog == SelectSeq(log, IsDispatcherEntry)

NR == Len(RequestReceivedEvent)
NS == Len(ResponseSentEvent)

\* The place of an entry within the processing of its request.
HookIndex(list, name) == CHOOSE i \in DOMAIN list : list[i] = name
Stage(e) ==
    CASE Kind(e) = "recv" -> 0
      [] Kind(e) = "hookR" -> HookIndex(RequestReceivedEvent, Info(e).hook)
      [] Kind(e) = "lookup" -> NR + 1
      [] Kind(e) = "invoke" -> NR + 2
      [] Kind(e) = "write" -> NR + 3
      [] Kind(e) = "hookS" -> NR + 3 + HookIndex(ResponseSentEvent, Info(e))

\* C15: what the dispatcher does is, request after request: the receive,
\* the request-received hooks in list order, the lookup, the invocation when
\* the lookup found a handler, the write, the response-sent hooks in list
\* order; and a receive comes only first or right after the last
\* response-sent hook of the request before.
C15_DispatcherOrder ==
    LET d == DispatcherLog IN
    /\ d # <<>> => IsRecv(d[1])
    /\ \A i \in 1..(Len(d) - 1) :
          IF Stage(d[i]) = NR + 3 + NS
          THEN IsRecv(d[i + 1])
          ELSE /\ Rid(d[i + 1]) = Rid(d[i])
               /\ Stage(d[i + 1]) =
                    IF Kind(d[i]) = "lookup" /\ Info(d[i]) = Nil
                    THEN NR + 3
                    ELSE Stage(d[i]) + 1
    /\ d # <<>> =>
          (Stage(d[Len(d)]) = NR + 3 + NS) = (dpc = "recv")

\* One connection has had two requests answered one after the other, the
\* first by a handler and the second, for a code with no handler, without
\* an invocation; the dispatcher is at its receive again.
C15_Witness ==
    /\ dpc = "recv"
    /\ \E c \in Conns :
          /\ Len(out[c]) = 2
          /\ Cardinality(EventsOf("invoke", <<c, 1>>)) = 1
          /\ Cardinality(EventsOf("invoke", <<c, 2>>)) = 0
          /\ Cardinality(EventsOf("hookS", <<c, 2>>)) = NS

\* The whole trail of a connection that was accepted and later closed.
FullTrail == <<"ConnectionAcceptedEvent", "go">> \o Deferred

\* C16: for every connection the accepted hooks have fired once, and before
\* the worker started, whenever there is a worker or a handed-off request;
\* a worker that has ended has closed the connection and then fired the
\* closed hooks once, by a failing read or parse; the closed hooks never
\* fire otherwise; and no request of the connection is received after that.
C16_ConnectionLifecycle ==
    /\ \A c \in Conns :
          /\ fired.accepted[c] <= 1 /\ fired.closed[c] <= 1
          /\ wpc[c] # "none" => fired.accepted[c] = 1
          /\ fired.trail[c] =
                CASE wpc[c] = "none" -> <<>>
                  [] wpc[c] \in {"read", "send"} -> SubSeq(FullTrail, 1, 2)
                  [] wpc[c] = "done" -> FullTrail
          /\ (wpc[c] = "done") = (fired.closed[c] = 1)
          /\ wpc[c] = "done"
              => /\ ~copen[c]
                 /\ \E i \in DOMAIN log :
                       Kind(log[i]) = "closed" /\ ConnOf(log[i]) = c
    /\ \A i \in DOMAIN log :
          /\ IsRecv(log[i]) => fired.accepted[ConnOf(log[i])] = 1
          /\ Kind(log[i]) = "closed"
              => /\ fired.closed[ConnOf(log[i])] = 1
                 /\ \A j \in (i + 1)..Len(log) :
                       ConnOf(log[j]) = ConnOf(log[i])
                       => Kind(log[j]) \notin {"recv", "closed"}

\* A connection handed off a request and then its read failed: it is
\* closed, the closed hooks have fired, and the worker is gone.
C16_Witness ==
    \E c \in Conns :
        /\ wpc[c] = "done" /\ ~copen[c]
        /\ fired.accepted[c] = 1 /\ fired.closed[c] = 1
        /\ <<c, 1>> \in Received
        /\ \E i \in DOMAIN log :
              Kind(log[i]) = "closed" /\ ConnOf(log[i]) = c /\ Info(log[i]) = "read"

\* Requests of connection c that were parsed and not yet received by the
\* dispatcher: packets read, less those received and the one that failed
\* to parse.
Pending(c) ==
    nread[c]
    - Cardinality({i \in DOMAIN log : IsRecv(log[i]) /\ ConnOf(log[i]) = c})
    - Cardinality({i \in DOMAIN log : Kind(log[i]) = "closed"
                        /\ ConnOf(log[i]) = c /\ Info(log[i]) = "parse"})

\* C17: a worker leaves its send only in a step in which the dispatcher,
\* at its receive, takes that worker's request; while the dispatcher is
\* processing, a worker at its send stays there with the same request; a
\* worker at its send reads nothing; and a connection has one parsed
\* request not yet received exactly when its worker is at the send, and
\* none otherwise.
C17_Rendezvous ==
    [][\A c \in Conns :
        /\ (wpc[c] = "send" /\ wpc'[c] # "send")
            => /\ dpc = "recv" /\ dpc' = "call"
               /\ request' = [conn |-> c, frame |-> wframe[c]]
        /\ (wpc[c] = "send" /\ dpc # "recv")
            => wpc'[c] = "send" /\ wframe'[c] = wframe[c]
        /\ wpc[c] = "send" => nread'[c] = nread[c]
        /\ Pending(c)' = (IF wpc'[c] = "send" THEN 1 ELSE 0)
      ]_vars

\* A worker holds the second request of its connection, blocked at its
\* send, while the dispatcher is still processing the first one.
C17_Witness ==
    \E c \in Conns :
        /\ wpc[c] = "send" /\ wframe[c].tid = 2
        /\ Busy /\ request.conn = c /\ request.frame.tid = 1

\* C18 as stated: under fair scheduling every request a worker has parsed
\* is eventually received by the dispatcher and its response is eventually
\* written.
C18_EveryRequestAnswered ==
    \A c \in Conns : \A k \in 1..MaxInputs :
        (wpc[c] = "send" /\ wframe[c].tid = k)
        ~> (EventsOf("write", <<c, k>>) # {})

\* What remains of C18 when no Close call has panicked: a parsed request is
\* eventually received and its response written, unless the process has
\* ended by then.
AnsweredUnlessCrashed ==
    \A c \in Conns : \A k \in 1..MaxInputs :
        (wpc[c] = "send" /\ wframe[c].tid = k)
        ~> (EventsOf("write", <<c, k>>) # {} \/ crashed)

\* C19 as stated: every response write reaches a connection that is still
\* open, and once a connection's closed hooks have fired there is no
\* response write and no request-received or response-sent hook for a
\* request of that connection.
C19_ClosedAfterResponses ==
    /\ \A i \in DOMAIN log : IsWrite(log[i]) => Info(log[i]) = TRUE
    /\ \A i, j \in DOMAIN log :
          (/\ i < j
           /\ Kind(log[i]) = "closed"
           /\ ConnOf(log[j]) = ConnOf(log[i]))
          => Kind(log[j]) \notin {"write", "hookR", "hookS"}

\* C20 as stated: no Close call fails, and no listener has its
\* server-stopped hooks fired by more than one Close call.
C20_CloseRepeatable ==
    /\ ~crashed
    /\ \A l \in Listeners : fired.stopped[l] <= 1

====
